---- MODULE Spec2Model ----
(***************************************************************************)
(* Model of two classes of maya-usd:                                       *)
(*   - MayaUsd::ufe::UsdTransform3d   (lib/mayaUsd/ufe/UsdTransform3d.cpp) *)
(*   - UsdMayaGLHdRenderer  (lib/mayaUsd/render/pxrUsdMayaGL/hdRenderer.h) *)
(*                                                                         *)
(* UsdTransform3d holds one scene item (fItem) and reads / writes the      *)
(* xformOp attributes of that item's prim on the USD stage.  Every method  *)
(* is one action; the last call, its arguments, how it ended and what it   *)
(* returned are kept in call / args / outcome / ret.                       *)
(*                                                                         *)
(* UsdMayaGLHdRenderer holds the rendered prim, the excluded prim paths    *)
(* and the imaging engine; its methods are the actions of RendererSpec.    *)
(***************************************************************************)
EXTENDS Integers, Sequences, FiniteSets, TLC

VARIABLES
    ufeVersion,        \* UFE_PREVIEW_VERSION_NUM the library was built with
    fItem,             \* UsdTransform3d::fItem (UsdSceneItem::Ptr)
    stage,             \* the USD stage: prim path -> attribute name -> attribute
    time,              \* what getTime(path()) yields (the host's current time)
    call,              \* the last UsdTransform3d method called (or event around it)
    args,              \* its (x, y, z) arguments, or NoArgs
    outcome,           \* "none", "returned", "runtime_error" or "undefined"
    ret,               \* the value it returned
    getLog,            \* history: the last two getMatrix() results and what the prim held
    calls,             \* number of calls made so far (bounded by MaxCalls)
    renderedPrim,      \* UsdMayaGLHdRenderer::_renderedPrim
    excludePrimPaths,  \* UsdMayaGLHdRenderer::_excludePrimPaths
    renderer,          \* UsdMayaGLHdRenderer::_renderer (the imaging engine)
    rcall,             \* the last UsdMayaGLHdRenderer method called
    requestArray       \* number of entries in the caller's RequestDataArray

xfVars  == <<ufeVersion, fItem, stage, time, call, args, outcome, ret, getLog>>
rdVars  == <<renderedPrim, excludePrimPaths, renderer, rcall, requestArray>>
vars    == <<ufeVersion, fItem, stage, time, call, args, outcome, ret, getLog,
             calls, renderedPrim, excludePrimPaths, renderer, rcall, requestArray>>

----------------------------------------------------------------------------
\* Bounds of the model.

\* Calls made in one behaviour.
MaxCalls == 3

\* Vectors used as arguments and authored values: (0,0,0) and (i, i+1, i+2).
MaxCoord == 1

----------------------------------------------------------------------------
\* Values.

\* A null pointer (of a scene item, a command or an imaging engine).
NULL     == [null |-> TRUE]

\* No (x, y, z) arguments, and an attribute without a value at some time.
NoArgs   == <<>>
NoValue  == <<>>

\* What a call hands back: nothing (also when it throws), a vector, a matrix,
\* or a pointer (a command record or NULL).
NoRet          == [void |-> TRUE]
RetVector(v)   == [vec |-> v]
RetMatrix(m)   == [matrix |-> m]

Vector3d(x, y, z) == <<x, y, z>>

Vec == {Vector3d(0, 0, 0)} \cup {Vector3d(i, i + 1, i + 2) : i \in 1..MaxCoord}

Paths == {"/A", "/B"}

\* A UsdSceneItem: a UFE path and the USD prim it stands for.
Items == {[path |-> p, prim |-> p] : p \in Paths}

Times == {1, 2}

UfeVersions == {2012, 2013, 2021}

\* The attribute names used by UsdTransform3d.
xlate    == "xformOp:translate"
rotXYZ   == "xformOp:rotateXYZ"
scaleTok == "xformOp:scale"
xpivot   == "xformOp:translate:pivot"

AttrNames == {xlate, rotXYZ, scaleTok, xpivot}

GfVec3d == "double3"
GfVec3f == "float3"
ValueTypes == {GfVec3d, GfVec3f}

\* The value type each xformOp attribute is created with.
OpType(name) == IF name = xlate THEN GfVec3d ELSE GfVec3f

\* An attribute of a prim: absent, or a typed attribute whose value at each
\* time is a vector or missing.
Absent == [present |-> FALSE]

Attribute(T, values) == [present |-> TRUE, type |-> T, val |-> values]

EmptyPrim == [n \in AttrNames |-> Absent]

----------------------------------------------------------------------------
\* The USD calls UsdTransform3d makes on a prim.

\* UsdPrim::HasAttribute
HasAttribute(prim, name) == stage[prim][name].present

\* UsdAttribute::Get<T>(&v, time) succeeds when the attribute holds values of
\* type T and has a value at that time.
GetSucceeds(prim, name, T, t) ==
    /\ stage[prim][name].present
    /\ stage[prim][name].type = T
    /\ stage[prim][name].val[t] # NoValue

\* The vector Get<T> stores into v when it succeeds.  GfVec3f components are
\* widened to double, which is exact.
GetValue(prim, name, t) == stage[prim][name].val[t]

\* getTime(path) of mayaUsd/ufe/Utils.h: the time of the proxy shape on the path.
getTime(p) == time

\* UsdTransform3d::path
path == fItem.path

\* UsdTransform3d::sceneItem
sceneItem == fItem

----------------------------------------------------------------------------
\* Read accessors of UsdTransform3d (pure in the state).

translation ==
    IF HasAttribute(fItem.prim, xlate)
         /\ GetSucceeds(fItem.prim, xlate, GfVec3d, getTime(path))
    THEN Vector3d(GetValue(fItem.prim, xlate, getTime(path))[1],
                  GetValue(fItem.prim, xlate, getTime(path))[2],
                  GetValue(fItem.prim, xlate, getTime(path))[3])
    ELSE Vector3d(0, 0, 0)

rotation ==
    IF HasAttribute(fItem.prim, rotXYZ)
         /\ GetSucceeds(fItem.prim, rotXYZ, GfVec3f, getTime(path))
    THEN Vector3d(GetValue(fItem.prim, rotXYZ, getTime(path))[1],
                  GetValue(fItem.prim, rotXYZ, getTime(path))[2],
                  GetValue(fItem.prim, rotXYZ, getTime(path))[3])
    ELSE Vector3d(0, 0, 0)

\* scale() with the identity scale as its fallback.
scale_identityFallback ==
    IF HasAttribute(fItem.prim, scaleTok)
         /\ GetSucceeds(fItem.prim, scaleTok, GfVec3f, getTime(path))
    THEN GetValue(fItem.prim, scaleTok, getTime(path))
    ELSE Vector3d(1, 1, 1)

scale ==
    IF HasAttribute(fItem.prim, scaleTok)
         /\ GetSucceeds(fItem.prim, scaleTok, GfVec3f, getTime(path))
    THEN Vector3d(GetValue(fItem.prim, scaleTok, getTime(path))[1],
                  GetValue(fItem.prim, scaleTok, getTime(path))[2],
                  GetValue(fItem.prim, scaleTok, getTime(path))[3])
    ELSE Vector3d(0, 0, 0)

rotatePivot ==
    IF HasAttribute(fItem.prim, xpivot)
         /\ GetSucceeds(fItem.prim, xpivot, GfVec3f, getTime(path))
    THEN Vector3d(GetValue(fItem.prim, xpivot, getTime(path))[1],
                  GetValue(fItem.prim, xpivot, getTime(path))[2],
                  GetValue(fItem.prim, xpivot, getTime(path))[3])
    ELSE Vector3d(0, 0, 0)

scalePivot == rotatePivot

----------------------------------------------------------------------------
\* The xform operations of mayaUsd/ufe/private/Utils.h, as functions of the
\* stage.  An operation authors its attribute on the prim: it creates the
\* attribute with the op's value type when absent, and sets the value; a set
\* on an attribute of another value type fails and leaves it as it is.

setOpValue(st, prim, name, v) ==
    IF ~st[prim][name].present \/ st[prim][name].type = OpType(name)
    THEN [st EXCEPT ![prim][name] =
             Attribute(OpType(name), [t \in Times |-> v])]
    ELSE st

translateOp(st, prim, v)            == setOpValue(st, prim, xlate, v)
rotateOp(st, prim, v)               == setOpValue(st, prim, rotXYZ, v)
scaleOp(st, prim, v)                == setOpValue(st, prim, scaleTok, v)
rotatePivotTranslateOp(st, prim, v) == setOpValue(st, prim, xpivot, v)

----------------------------------------------------------------------------
\* Undoable commands and matrices.

\* Usd<Kind>UndoableCommand::create(path, x, y, z): a new command object.
Command(kind, p, v) == [cmd |-> kind, path |-> p, xyz |-> v]

\* Ufe::Matrix4d, here d on the diagonal and 0 elsewhere.
Matrix4d(d) == [i \in 1..4 |-> [j \in 1..4 |-> IF i = j THEN d ELSE 0]]

Matrices == {Matrix4d(0), Matrix4d(1)}

\* What a default-initialized Ufe::Matrix4d local may hold.
IndeterminateMatrix == Matrices

----------------------------------------------------------------------------
\* UsdTransform3d: construction.

\* A default-constructed UsdPrim (no prim).
InvalidPrim == ""

\* UsdTransform3d() leaves fItem null, UsdTransform3d(item) holds item.  The
\* stage starts with prims that have no xformOp attribute authored.
Init ==
    /\ ufeVersion \in UfeVersions
    /\ fItem \in Items \cup {NULL}
    /\ stage = [p \in Paths |-> EmptyPrim]
    /\ time = 1
    /\ call = "none"
    /\ args = NoArgs
    /\ outcome = "none"
    /\ ret = NoRet
    /\ getLog = <<>>
    /\ calls = 0
    /\ renderedPrim = InvalidPrim
    /\ excludePrimPaths = <<>>
    /\ renderer = NULL
    /\ rcall = [name |-> "none", result |-> FALSE]
    /\ requestArray = 0

\* A further call can be made: the call budget is not used up and no earlier
\* call had undefined behaviour.
CanCall == calls < MaxCalls /\ outcome # "undefined"

\* The bookkeeping of a call that ends: what was called, with what, how it
\* ended and what it returned.
Ends(name, a, how, r) ==
    /\ call' = name
    /\ args' = a
    /\ outcome' = how
    /\ ret' = r
    /\ calls' = calls + 1

\* A call that dereferences the null fItem: undefined behaviour.  Nothing is
\* assumed about the object afterwards; no further call is made on it.
NullItemDeref(name, a) ==
    /\ Ends(name, a, "undefined", NoRet)
    /\ stage' \in {stage, [p \in Paths |-> EmptyPrim]}
    /\ UNCHANGED <<ufeVersion, fItem, time, getLog>>

----------------------------------------------------------------------------
\* UsdTransform3d: operations.

setItem(item) ==
    /\ CanCall
    /\ fItem' = item
    /\ Ends("setItem", NoArgs, "returned", NoRet)
    /\ UNCHANGED <<ufeVersion, stage, time, getLog>>

\* translateCmd(x, y, z), UFE_PREVIEW_VERSION_NUM >= 2013
translateCmd(v) ==
    /\ CanCall
    /\ ufeVersion >= 2013
    /\ IF fItem = NULL
       THEN NullItemDeref("translateCmd", v)
       ELSE /\ Ends("translateCmd", v, "returned",
                    Command("UsdTranslateUndoableCommand", path, v))
            /\ UNCHANGED <<ufeVersion, fItem, stage, time, getLog>>

translate(v) ==
    /\ CanCall
    /\ IF fItem = NULL
       THEN NullItemDeref("translate", v)
       ELSE /\ stage' = translateOp(stage, fItem.prim, v)
            /\ Ends("translate", v, "returned", NoRet)
            /\ UNCHANGED <<ufeVersion, fItem, time, getLog>>

\* rotateCmd(x, y, z), UFE_PREVIEW_VERSION_NUM >= 2013
rotateCmd(v) ==
    /\ CanCall
    /\ ufeVersion >= 2013
    /\ IF fItem = NULL
       THEN NullItemDeref("rotateCmd", v)
       ELSE /\ Ends("rotateCmd", v, "returned",
                    Command("UsdRotateUndoableCommand", path, v))
            /\ UNCHANGED <<ufeVersion, fItem, stage, time, getLog>>

rotate(v) ==
    /\ CanCall
    /\ IF fItem = NULL
       THEN NullItemDeref("rotate", v)
       ELSE /\ stage' = rotateOp(stage, fItem.prim, v)
            /\ Ends("rotate", v, "returned", NoRet)
            /\ UNCHANGED <<ufeVersion, fItem, time, getLog>>

\* scaleCmd(x, y, z), UFE_PREVIEW_VERSION_NUM >= 2013
scaleCmd(v) ==
    /\ CanCall
    /\ ufeVersion >= 2013
    /\ IF fItem = NULL
       THEN NullItemDeref("scaleCmd", v)
       ELSE /\ Ends("scaleCmd", v, "returned",
                    Command("UsdScaleUndoableCommand", path, v))
            /\ UNCHANGED <<ufeVersion, fItem, stage, time, getLog>>

\* translateCmd(), UFE_PREVIEW_VERSION_NUM < 2013
translateCmd0 ==
    /\ CanCall
    /\ ufeVersion < 2013
    /\ IF fItem = NULL
       THEN NullItemDeref("translateCmd", NoArgs)
       ELSE /\ Ends("translateCmd", NoArgs, "returned",
                    Command("UsdTranslateUndoableCommand", path, Vector3d(0, 0, 0)))
            /\ UNCHANGED <<ufeVersion, fItem, stage, time, getLog>>

\* rotateCmd(), UFE_PREVIEW_VERSION_NUM < 2013
rotateCmd0 ==
    /\ CanCall
    /\ ufeVersion < 2013
    /\ IF fItem = NULL
       THEN NullItemDeref("rotateCmd", NoArgs)
       ELSE /\ Ends("rotateCmd", NoArgs, "returned",
                    Command("UsdRotateUndoableCommand", path, Vector3d(0, 0, 0)))
            /\ UNCHANGED <<ufeVersion, fItem, stage, time, getLog>>

\* scaleCmd(), UFE_PREVIEW_VERSION_NUM < 2013
scaleCmd0 ==
    /\ CanCall
    /\ ufeVersion < 2013
    /\ IF fItem = NULL
       THEN NullItemDeref("scaleCmd", NoArgs)
       ELSE /\ Ends("scaleCmd", NoArgs, "returned",
                    Command("UsdScaleUndoableCommand", path, Vector3d(1, 1, 1)))
            /\ UNCHANGED <<ufeVersion, fItem, stage, time, getLog>>

\* setMatrixCmd(m), UFE_PREVIEW_VERSION_NUM >= 2021
setMatrixCmd(m) ==
    /\ CanCall
    /\ ufeVersion >= 2021
    /\ Ends("setMatrixCmd", m, "returned", NULL)
    /\ UNCHANGED <<ufeVersion, fItem, stage, time, getLog>>

\* What getMatrix() leaves in the history: its result and, when an item is
\* held, what the accessors report of the item's prim at this moment.
GetMatrixRecord(m) ==
    [m    |-> m,
     item |-> fItem,
     trs  |-> IF fItem = NULL THEN <<>> ELSE <<translation, rotation, scale>>,
     prim |-> IF fItem = NULL THEN <<>> ELSE <<stage[fItem.prim], time>>]

\* getMatrix(), UFE_PREVIEW_VERSION_NUM >= 2021: returns a local Matrix4d
\* that was never assigned.
getMatrix ==
    /\ CanCall
    /\ ufeVersion >= 2021
    /\ \E m \in IndeterminateMatrix :
         /\ Ends("getMatrix", NoArgs, "returned", RetMatrix(m))
         /\ getLog' = IF Len(getLog) = 0
                      THEN <<GetMatrixRecord(m)>>
                      ELSE <<getLog[Len(getLog)], GetMatrixRecord(m)>>
    /\ UNCHANGED <<ufeVersion, fItem, stage, time>>

\* scale(x, y, z)
scaleXYZ(v) ==
    /\ CanCall
    /\ IF fItem = NULL
       THEN NullItemDeref("scale(x,y,z)", v)
       ELSE /\ stage' = scaleOp(stage, fItem.prim, v)
            /\ Ends("scale(x,y,z)", v, "returned", NoRet)
            /\ UNCHANGED <<ufeVersion, fItem, time, getLog>>

rotatePivotTranslateCmd ==
    /\ CanCall
    /\ IF fItem = NULL
       THEN NullItemDeref("rotatePivotTranslateCmd", NoArgs)
       ELSE /\ Ends("rotatePivotTranslateCmd", NoArgs, "returned",
                    Command("UsdRotatePivotTranslateUndoableCommand", fItem.path, NoArgs))
            /\ UNCHANGED <<ufeVersion, fItem, stage, time, getLog>>

\* The body of rotatePivotTranslate(x, y, z), reported under the name of the
\* method the caller invoked.
rotatePivotTranslateAs(name, v) ==
    IF fItem = NULL
    THEN NullItemDeref(name, v)
    ELSE /\ stage' = rotatePivotTranslateOp(stage, fItem.prim, v)
         /\ Ends(name, v, "returned", NoRet)
         /\ UNCHANGED <<ufeVersion, fItem, time, getLog>>

rotatePivotTranslate(v) ==
    /\ CanCall
    /\ rotatePivotTranslateAs("rotatePivotTranslate", v)

\* scalePivotTranslateCmd() handing out the rotate pivot command.
scalePivotTranslateCmd_returnsCommand ==
    /\ CanCall
    /\ Ends("scalePivotTranslateCmd", NoArgs, "returned",
            Command("UsdRotatePivotTranslateUndoableCommand", NoArgs, NoArgs))
    /\ UNCHANGED <<ufeVersion, fItem, stage, time, getLog>>

scalePivotTranslateCmd ==
    /\ CanCall
    /\ Ends("scalePivotTranslateCmd", NoArgs, "runtime_error", NoRet)
    /\ UNCHANGED <<ufeVersion, fItem, stage, time, getLog>>

\* scalePivotTranslate(x, y, z) forwarding to scale(x, y, z).
scalePivotTranslate_scales(v) ==
    /\ CanCall
    /\ IF fItem = NULL
       THEN NullItemDeref("scalePivotTranslate", v)
       ELSE /\ stage' = scaleOp(stage, fItem.prim, v)
            /\ Ends("scalePivotTranslate", v, "returned", NoRet)
            /\ UNCHANGED <<ufeVersion, fItem, time, getLog>>

scalePivotTranslate(v) ==
    /\ CanCall
    /\ rotatePivotTranslateAs("scalePivotTranslate", v)

\* A call of a read accessor: translation(), rotation(), scale(),
\* rotatePivot() or scalePivot().  rotation() and scale() are compiled for
\* UFE_PREVIEW_VERSION_NUM >= 2013 only.
Accessors == {"translation", "rotation", "scale", "rotatePivot", "scalePivot"}

AccessorResult(name) ==
    CASE name = "translation" -> translation
      [] name = "rotation"    -> rotation
      [] name = "scale"       -> scale
      [] name = "rotatePivot" -> rotatePivot
      [] name = "scalePivot"  -> scalePivot

ReadAccessor(name) ==
    /\ CanCall
    /\ name \in {"rotation", "scale"} => ufeVersion >= 2013
    /\ IF fItem = NULL
       THEN NullItemDeref(name, NoArgs)
       ELSE /\ Ends(name, NoArgs, "returned", RetVector(AccessorResult(name)))
            /\ UNCHANGED <<ufeVersion, fItem, stage, time, getLog>>

----------------------------------------------------------------------------
\* The environment of UsdTransform3d: the scene is authored outside of it and
\* the host moves its current time.

v1 == Vector3d(1, 2, 3)

\* States an externally authored attribute is put into: removed; created and
\* left without a value; holding values of the other value type; holding a
\* value at the first time only; holding a different value at each time.
AuthoredAttrs(name) ==
    { Absent,
      Attribute(OpType(name), [t \in Times |-> NoValue]),
      Attribute(CHOOSE T \in ValueTypes : T # OpType(name), [t \in Times |-> v1]),
      Attribute(OpType(name), [t \in Times |-> IF t = 1 THEN v1 ELSE NoValue]),
      Attribute(OpType(name), [t \in Times |-> Vector3d(t, t + 1, t + 2)]) }

AuthorAttribute(prim, name, a) ==
    /\ CanCall
    /\ stage' = [stage EXCEPT ![prim][name] = a]
    /\ Ends("(stage edit)", NoArgs, "none", NoRet)
    /\ UNCHANGED <<ufeVersion, fItem, time, getLog>>

SetTime(t) ==
    /\ CanCall
    /\ t # time
    /\ time' = t
    /\ Ends("(time change)", NoArgs, "none", NoRet)
    /\ UNCHANGED <<ufeVersion, fItem, stage, getLog>>

Next ==
    \/ \E item \in Items \cup {NULL} : setItem(item) /\ UNCHANGED rdVars
    \/ \E v \in Vec : translateCmd(v) /\ UNCHANGED rdVars
    \/ \E v \in Vec : translate(v) /\ UNCHANGED rdVars
    \/ \E v \in Vec : rotateCmd(v) /\ UNCHANGED rdVars
    \/ \E v \in Vec : rotate(v) /\ UNCHANGED rdVars
    \/ \E v \in Vec : scaleCmd(v) /\ UNCHANGED rdVars
    \/ translateCmd0 /\ UNCHANGED rdVars
    \/ rotateCmd0 /\ UNCHANGED rdVars
    \/ scaleCmd0 /\ UNCHANGED rdVars
    \/ \E m \in Matrices : setMatrixCmd(m) /\ UNCHANGED rdVars
    \/ getMatrix /\ UNCHANGED rdVars
    \/ \E v \in Vec : scaleXYZ(v) /\ UNCHANGED rdVars
    \/ rotatePivotTranslateCmd /\ UNCHANGED rdVars
    \/ \E v \in Vec : rotatePivotTranslate(v) /\ UNCHANGED rdVars
    \/ scalePivotTranslateCmd /\ UNCHANGED rdVars
    \/ \E v \in Vec : scalePivotTranslate(v) /\ UNCHANGED rdVars
    \/ \E name \in Accessors : ReadAccessor(name) /\ UNCHANGED rdVars
    \/ \E p \in Paths, n \in AttrNames :
         \E a \in AuthoredAttrs(n) : AuthorAttribute(p, n, a) /\ UNCHANGED rdVars
    \/ \E t \in Times : SetTime(t) /\ UNCHANGED rdVars

Spec == Init /\ [][Next]_vars

----------------------------------------------------------------------------
\* UsdMayaGLHdRenderer.

\* SdfPathVector values passed as excludePaths.
ExcludeVectors == {<<>>, <<"/A">>, <<"/B">>, <<"/A", "/B">>, <<"/B", "/A">>}

DRAWING_STYLES == {"DRAW_POINTS", "DRAW_WIREFRAME", "DRAW_SHADED_FLAT",
                   "DRAW_SHADED_SMOOTH", "DRAW_BOUNDING_BOX"}

\* The three private members.
held == <<renderedPrim, excludePrimPaths, renderer>>

\* new UsdImagingGLEngine(rootPath, excludedPaths); nth tells engines apart.
Engine(root, excluded, nth) == [root |-> root, excluded |-> excluded, nth |-> nth]

Called(name, result) ==
    /\ rcall' = [name |-> name, result |-> result]
    /\ calls' = calls + 1

\* "Should be called when the prim to draw or excludePaths change": a new
\* engine is set up for the prim and the excluded paths when either differs
\* from what is held.
CheckRendererSetup(usdPrim, excludePaths) ==
    /\ calls < MaxCalls
    /\ IF usdPrim # renderedPrim \/ excludePaths # excludePrimPaths
       THEN /\ excludePrimPaths' = excludePaths
            /\ renderer' = Engine(usdPrim, excludePaths, calls + 1)
            /\ renderedPrim' = usdPrim
       ELSE UNCHANGED <<renderedPrim, excludePrimPaths, renderer>>
    /\ Called("CheckRendererSetup", FALSE)
    /\ UNCHANGED requestArray

\* Appends the draw requests of the shape (wireframe and / or shaded) to the
\* caller's array.
GenerateDefaultVp2DrawRequests(n) ==
    /\ calls < MaxCalls
    /\ requestArray' = requestArray + n
    /\ Called("GenerateDefaultVp2DrawRequests", FALSE)
    /\ UNCHANGED <<renderedPrim, excludePrimPaths, renderer>>

\* Render() setting up a fresh engine for each draw.
Render_recreatesEngine(style) ==
    /\ calls < MaxCalls
    /\ renderer' = Engine(renderedPrim, excludePrimPaths, calls + 1)
    /\ Called("Render", FALSE)
    /\ UNCHANGED <<renderedPrim, excludePrimPaths, requestArray>>

\* Render(aRequest, aView, params) const; style is the request's token.
Render(style) ==
    /\ calls < MaxCalls
    /\ Called("Render", FALSE)
    /\ UNCHANGED <<renderedPrim, excludePrimPaths, renderer, requestArray>>

\* RenderVp2(requests, context, params) const
RenderVp2 ==
    /\ calls < MaxCalls
    /\ Called("RenderVp2", FALSE)
    /\ UNCHANGED <<renderedPrim, excludePrimPaths, renderer, requestArray>>

\* TestIntersection(selectInfo, params, hitPoint) const: whether the pick hit.
TestIntersection(isHit) ==
    /\ calls < MaxCalls
    /\ Called("TestIntersection", isHit)
    /\ UNCHANGED <<renderedPrim, excludePrimPaths, renderer, requestArray>>

RendererNext ==
    \/ \E prim \in Paths \cup {InvalidPrim}, ex \in ExcludeVectors :
         CheckRendererSetup(prim, ex) /\ UNCHANGED xfVars
    \/ \E n \in 0..2 : GenerateDefaultVp2DrawRequests(n) /\ UNCHANGED xfVars
    \/ \E style \in DRAWING_STYLES : Render(style) /\ UNCHANGED xfVars
    \/ RenderVp2 /\ UNCHANGED xfVars
    \/ \E isHit \in BOOLEAN : TestIntersection(isHit) /\ UNCHANGED xfVars

RendererSpec == Init /\ [][RendererNext]_vars

----------------------------------------------------------------------------
\* Properties.

Zero3 == Vector3d(0, 0, 0)

\* The call just made was name, on a held item, and it returned.
Returned(name) == call = name /\ outcome = "returned" /\ fItem # NULL

CmdFactories == {"translateCmd", "rotateCmd", "scaleCmd",
                 "rotatePivotTranslateCmd", "scalePivotTranslateCmd", "setMatrixCmd"}

\* C1: with a valid scene item held, every undoable-command factory
\* (translateCmd, rotateCmd, scaleCmd, rotatePivotTranslateCmd,
\* scalePivotTranslateCmd, setMatrixCmd) returns normally and what it returns
\* is a command, not null.
C1_EveryFactoryReturnsCommand ==
    (call \in CmdFactories /\ fItem # NULL /\ outcome # "undefined")
        => (outcome = "returned" /\ ret # NULL /\ "cmd" \in DOMAIN ret)

\* C2: getMatrix() is determined by the transform state of the held item's
\* prim: of two getMatrix() calls, those that saw a different translation(),
\* rotation() or scale() returned different matrices, and those that saw the
\* same prim at the same time returned the same matrix.
C2_GetMatrixReflectsPrim ==
    (Len(getLog) = 2 /\ getLog[1].item # NULL /\ getLog[2].item # NULL)
        => /\ (getLog[1].trs # getLog[2].trs) => (getLog[1].m # getLog[2].m)
           /\ (getLog[1].prim = getLog[2].prim) => (getLog[1].m = getLog[2].m)

AccessorAttr(name) ==
    CASE name = "translation" -> xlate
      [] name = "rotation"    -> rotXYZ
      [] name = "scale"       -> scaleTok
      [] name = "rotatePivot" -> xpivot

AccessorType(name) == IF name = "translation" THEN GfVec3d ELSE GfVec3f

\* C4: translation(), rotation(), scale() and rotatePivot() return the three
\* components of their attribute read at getTime(path()) when the prim has
\* the attribute and the read yields a value, and (0, 0, 0) when the
\* attribute is absent or the read yields no value - scale() included.
C4_AccessorReadsAttributeOrZero ==
    \A name \in {"translation", "rotation", "scale", "rotatePivot"} :
        Returned(name) =>
            LET attr == AccessorAttr(name)
                read == /\ HasAttribute(fItem.prim, attr)
                        /\ GetSucceeds(fItem.prim, attr, AccessorType(name), getTime(fItem.path))
            IN  /\ read => ret = RetVector(GetValue(fItem.prim, attr, getTime(fItem.path)))
                /\ ~read => ret = RetVector(Zero3)

\* C4 witness: scale() read a value that only the second time holds.
C4_Witness ==
    /\ Returned("scale")
    /\ time = 2
    /\ GetSucceeds(fItem.prim, scaleTok, GfVec3f, 2)
    /\ stage[fItem.prim][scaleTok].val[1] # stage[fItem.prim][scaleTok].val[2]
    /\ ret = RetVector(Vector3d(2, 3, 4))

\* C5: the scale pivot is the rotate pivot: scalePivot() returns what
\* rotatePivot() reports in every state, and a step of
\* scalePivotTranslate(x, y, z) does to the stage what
\* rotatePivotTranslate(x, y, z) does (rotatePivotTranslateOp on the held
\* item's prim) and nothing else.
C5_ScalePivotIsRotatePivot ==
    /\ [](Returned("scalePivot") => ret = RetVector(rotatePivot))
    /\ []((fItem # NULL /\ outcome # "undefined") => scalePivot = rotatePivot)
    /\ [][ (call' = "scalePivotTranslate" /\ outcome' = "returned")
              => /\ stage' = rotatePivotTranslateOp(stage, fItem.prim, args')
                 /\ UNCHANGED <<fItem, time, ufeVersion>> ]_vars

\* C5 witness: scalePivotTranslate moved the pivot, and rotatePivot() shows it.
C5_Witness ==
    /\ Returned("scalePivotTranslate")
    /\ args # Zero3
    /\ rotatePivot = args
    /\ scalePivot = args

FactoryAccessor(name) ==
    CASE name = "translateCmd" -> "translation"
      [] name = "rotateCmd"    -> "rotation"
      [] name = "scaleCmd"     -> "scale"

\* C7: the values an argument-less translateCmd(), rotateCmd() or scaleCmd()
\* creates its command with equal what translation(), rotation() and scale()
\* report for a prim on which the attribute is not authored.
C7_OneDefaultPerComponent ==
    \A name \in {"translateCmd", "rotateCmd", "scaleCmd"} :
        (Returned(name) /\ args = NoArgs
           /\ ~HasAttribute(fItem.prim, AccessorAttr(FactoryAccessor(name))))
        => ret.xyz = AccessorResult(FactoryAccessor(name))

====
